---- MODULE Spec2Model ----
(***************************************************************************)
(* GoSSHa (src/main.go): a client that runs one command (mssh) or uploads  *)
(* one file (mscp) on a list of hosts in parallel.  The model follows the  *)
(* process from main: the usage check, initialize/makeKeyring/makeSigner   *)
(* on the main goroutine, then mssh/mscp launching one goroutine per host, *)
(* each going through getSession/makeConfig and execute/uploadFile and     *)
(* sending one result into resultsChan, which the main goroutine drains.   *)
(***************************************************************************)
EXTENDS Integers, Sequences, FiniteSets, TLC

\* ---------------------------------------------------------------- bounds
\* Longest host list of an invocation.
MaxHosts == 2
\* Temporary errors the agent socket produces before it answers for good.
MaxTransient == 1

\* ------------------------------------------------------ program constants
\* make(chan *SshResult, 10), make(chan *ScpResult, 10)
ChanCap == 10
\* rand.Intn(100) milliseconds
JitterMs == 100
\* len(os.Args) < 3 for mssh, len(os.Args) < 4 for mscp (os.Args[0] included)
MsshMinArgs == 3
MscpMinArgs == 4
\* os.Exit(2)
UsageExitCode == 2
\* exit status of a Go process that dies of panic(...)
PanicExitCode == 2

\* ------------------------------------------------------------ environment
HostNames == <<"h1", "h2", "h3", "h4">>

\* keys := []string{HOME/.ssh/id_rsa, HOME/.ssh/id_dsa}
keys == <<"id_rsa", "id_dsa">>

\* What a key file on disk can be: missing, present but not openable,
\* an unencrypted key that parses, unencrypted bytes that do not parse, an
\* encrypted key whose plaintext parses, an encrypted key whose plaintext
\* does not parse (for ssh.ParsePrivateKey).
FileKinds == {"absent", "denied", "plain", "garbage", "encrypted", "encryptedGarbage"}

\* The bytes of a key file: <<marker, payload, keyname>>.
FileContents(kind, keyname) ==
    CASE kind = "plain"            -> <<"PEM", "key", keyname>>
      [] kind = "garbage"          -> <<"PEM", "junk", keyname>>
      [] kind = "encrypted"        -> <<"ENCRYPTED", "key", keyname>>
      [] kind = "encryptedGarbage" -> <<"ENCRYPTED", "junk", keyname>>
      [] OTHER                     -> <<"", "", keyname>>

\* bytes.Contains(buf, []byte("ENCRYPTED"))
ContainsEncrypted(b) == b[1] = "ENCRYPTED"

\* ssh-keygen -p -N "" -f tmpName: the file holds the same key without passphrase.
KeygenDecrypt(b) == <<"PEM", b[2], b[3]>>

NoSigner == <<>>
\* ssh.ParsePrivateKey succeeds on an unencrypted, well-formed key.
ParseOK(b) == b[1] = "PEM" /\ b[2] = "key"
ParsePrivateKey(b) == IF ParseOK(b) THEN <<"signer", b[3]>> ELSE NoSigner

\* ----------------------------------------------------------------- values
NoErr == "nil"
NilAuth == [method |-> "nil", signers |-> <<>>]
AgentAuth == [method |-> "agent", signers |-> <<>>]
\* A *ssh.ClientConfig: nil, or the struct with its Auth list.
NoConfig == [nil |-> TRUE, Auth |-> <<>>]
ClientConfig(auth) == [nil |-> FALSE, Auth |-> auth]
EmptyMap == [h \in {} |-> <<>>]
EmptyResult == <<>>
\* result = "(error)\n"
ErrorMarker == <<"(error)">>
\* What the command prints on the remote host.
RemoteStdout(host) == <<"stdout", host>>

\* Variant: an entry that exists is kept.
MapPutIfAbsent(m, k, v) ==
    [x \in (DOMAIN m) \cup {k} |-> IF x \in DOMAIN m THEN m[x] ELSE v]

\* result[k] = v
MapPut(m, k, v) == [x \in (DOMAIN m) \cup {k} |-> IF x = k THEN v ELSE m[x]]

\* Variant: the upper end is included.
RandIntnInclusive(n) == 0..n

\* rand.Intn(n): a value in [0, n)
RandIntn(n) == 0..(n - 1)

\* What agent.RequestIdentities() can give: an error, an empty list, a
\* non-empty list.
NotRequested == "not requested"
IdentityOutcomes == {"error", "none", "some"}

\* No SignerContainer method is being called; nothing was returned.
NoCall == [op |-> "none", i |-> 0, data |-> ""]
NoReturn == [state |-> "none", key |-> <<>>, sig |-> <<>>, err |-> "nil"]

VARIABLES
    prog,         \* filepath.Base(os.Args[0])
    args,         \* os.Args[1:]
    sshAuthSock,  \* os.Getenv("SSH_AUTH_SOCK")
    keyFile,      \* what each default key file is on disk
    agentFaults,  \* temporary errors the agent socket will still produce
    mpc,          \* position of the main goroutine
    exitCode,     \* process exit status, -1 while running
    stdout,       \* lines written to standard output so far
    usage,        \* usage messages main wrote to standard error
    keyIdx,       \* makeKeyring: index of the key being tried
    signers,      \* makeKeyring: signers collected so far
    keyring,      \* global keyring (ssh.ClientAuth), NilAuth when nil
    acquired,     \* makeKeyring: err == nil of each makeSigner call so far
    buf,          \* makeSigner: buf
    tmpfile,      \* makeSigner: the temporary file: "none", "exists", "removed"
    deferred,     \* makeSigner: the deferred close-and-remove is registered
    signer,       \* makeSigner: signer (named result)
    err,          \* makeSigner: err (named result)
    diag,         \* makeSigner: reportErrorToUser calls of the current call
    merr,         \* mscp: err of opening and reading the source file
    launched,     \* mssh/mscp: goroutines started by the range loop
    received,     \* mssh/mscp: i of the collecting loop
    resultsChan,  \* buffered channel contents
    result,       \* the result map
    pc,           \* per host task: position
    dialErr,      \* per host task: makeConfig's last net.Dial outcome
    sleepMs,      \* per host task: duration of the running time.Sleep
    clientAuth,   \* per host task: makeConfig's clientAuth
    config,       \* per host task: Auth of the ClientConfig makeConfig returned
    cfgDiag,      \* per host task: lines makeConfig wrote to standard error
    identities,   \* per host task: makeConfig's outcome of agent.RequestIdentities()
    conn,         \* per host task: the ssh client connection
    session,      \* per host task: the ssh session
    tres,         \* per host task: result of execute (goroutine local)
    terr,         \* per host task: err of execute / uploadFile
    call,         \* SignerContainer: the method call in progress
    ret           \* SignerContainer: what the call returned

envVars == <<prog, args, sshAuthSock, keyFile>>
mainVars == <<mpc, exitCode, stdout>>
keyringVars == <<keyIdx, signers, keyring, acquired>>
signerVars == <<buf, tmpfile, deferred, signer, err, diag>>
dispatchVars == <<launched, received, resultsChan, result>>
configVars == <<dialErr, sleepMs, clientAuth, config, cfgDiag, identities, agentFaults>>
sessionVars == <<conn, session, tres, terr>>
containerVars == <<call, ret>>
vars == <<envVars, usage, containerVars, merr, mainVars, keyringVars, signerVars, dispatchVars, pc, configVars, sessionVars>>

\* ------------------------------------------------------------- arguments
\* command-runner: <cmd> <hosts...>; file-distributor: <source> <target> <hosts...>
FixedArgs(p) == IF p = "mscp" THEN <<"source", "target">> ELSE <<"cmd">>

\* os.Args[2:] for mssh, os.Args[3:] for mscp
hostnames == SubSeq(args, Len(FixedArgs(prog)) + 1, Len(args))

Tasks == 1..Len(hostnames)

\* Host lists up to renaming of the hosts: the first host is h1 and each
\* further host is one already listed or the next unused name.
IsNamedInOrder(s) ==
    \A i \in 1..Len(s) :
        \E k \in 1..i : /\ s[i] = HostNames[k]
                        /\ \A j \in 1..(k - 1) : \E l \in 1..(i - 1) : s[l] = HostNames[j]

HostNameSet == {HostNames[k] : k \in 1..MaxHosts}

HostListsOf(n) == {s \in [1..n -> HostNameSet] : IsNamedInOrder(s)}

HostLists(maxLen) == UNION {HostListsOf(n) : n \in 0..maxLen}

\* Full command lines, and the ones that stop short of a host.
ArgLists(p, maxLen) ==
    {FixedArgs(p) \o hl : hl \in HostLists(maxLen)}
        \cup {SubSeq(FixedArgs(p), 1, k) : k \in 0..Len(FixedArgs(p))}

Distinct(s) == \A i, j \in 1..Len(s) : i /= j => s[i] /= s[j]


\* ------------------------------------------------------------------ Init
InitTask == [i \in Tasks |-> "idle"]

Start(p, a, sock, kf, faults) ==
    /\ prog = p
    /\ args = a
    /\ sshAuthSock = sock
    /\ keyFile = kf
    /\ mpc = "main"
    /\ exitCode = -1
    /\ stdout = 0
    /\ usage = 0
    /\ keyIdx = 0
    /\ signers = <<>>
    /\ keyring = NilAuth
    /\ acquired = <<>>
    /\ buf = <<>>
    /\ tmpfile = "none"
    /\ deferred = FALSE
    /\ signer = NoSigner
    /\ err = NoErr
    /\ diag = 0
    /\ merr = NoErr
    /\ launched = 0
    /\ received = 0
    /\ resultsChan = <<>>
    /\ result = EmptyMap
    /\ pc = InitTask
    /\ dialErr = [i \in Tasks |-> NoErr]
    /\ sleepMs = [i \in Tasks |-> 0]
    /\ clientAuth = [i \in Tasks |-> <<>>]
    /\ config = [i \in Tasks |-> NoConfig]
    /\ cfgDiag = [i \in Tasks |-> 0]
    /\ identities = [i \in Tasks |-> NotRequested]
    /\ conn = [i \in Tasks |-> "none"]
    /\ session = [i \in Tasks |-> "none"]
    /\ tres = [i \in Tasks |-> EmptyResult]
    /\ terr = [i \in Tasks |-> NoErr]
    /\ agentFaults = faults
    /\ call = NoCall
    /\ ret = NoReturn

Programs == {"mssh", "mscp"}
Sockets == {"", "/tmp/agent.sock"}

\* Invocations with at most one host, over every state of the key files,
\* the agent socket failing temporarily up to MaxTransient times.
InitAuth ==
    \E p \in Programs, sock \in Sockets, kf \in [{keys[k] : k \in 1..Len(keys)} -> FileKinds] :
        \E a \in ArgLists(p, 1) : Start(p, a, sock, kf, MaxTransient)

\* Invocations with up to MaxHosts hosts, the key files both usable or both
\* missing, no agent socket configured.
InitDispatch ==
    \E p \in Programs, sock \in {""},
       kf \in {[k \in {keys[j] : j \in 1..Len(keys)} |-> kind] : kind \in {"absent", "plain"}} :
        \E a \in ArgLists(p, MaxHosts) : Start(p, a, sock, kf, 0)

Init == InitAuth \/ InitDispatch

\* ------------------------------------------------------------------ main
\* Variant: one more argument is required (a second host for mssh).
MinArgsOneMore(p) == (IF p = "mscp" THEN MscpMinArgs ELSE MsshMinArgs) + 1

\* The number of arguments below which main prints the usage and exits.
MinArgs(p) == IF p = "mscp" THEN MscpMinArgs ELSE MsshMinArgs

\* main: len(os.Args) < MinArgs => usage on standard error, os.Exit(2);
\* otherwise initialize(), which starts makeKeyring's loop over keys.
Main ==
    /\ mpc = "main"
    /\ IF Len(args) + 1 < MinArgs(prog)
         THEN /\ mpc' = "exited"
              /\ exitCode' = UsageExitCode
              /\ usage' = usage + 1
              /\ UNCHANGED <<keyIdx, signers>>
         ELSE /\ mpc' = IF Len(keys) = 0 THEN "mk_ret" ELSE "ms_open"
              /\ keyIdx' = 1
              /\ signers' = <<>>
              /\ UNCHANGED <<exitCode, usage>>
    /\ UNCHANGED <<envVars, containerVars, merr, stdout, keyring, acquired, signerVars, dispatchVars, pc, configVars, sessionVars>>

\* ------------------------------------------------------------ makeSigner
keyname == keys[keyIdx]

\* Variant: nothing is deferred; only the explicit os.Remove removes the file.
RunDeferredNothing(tmp, registered) == tmp

\* The deferred func() { tmpfp.Close(); os.Remove(tmpName) } run at return.
RunDeferred(tmp, registered) == IF registered /\ tmp = "exists" THEN "removed" ELSE tmp

\* A return of makeSigner with the given results, after n more diagnostics.
MsReturn(s, e, n) ==
    /\ mpc' = "ms_ret"
    /\ signer' = s
    /\ err' = e
    /\ diag' = diag + n
    /\ tmpfile' = RunDeferred(tmpfile, deferred)

MsUnchanged == <<envVars, usage, containerVars, merr, exitCode, stdout, keyringVars, dispatchVars, pc, configVars, sessionVars>>

\* fp, err := os.Open(keyname): a missing file returns silently, any other
\* failure is reported.
MsOpen ==
    /\ mpc = "ms_open"
    /\ CASE keyFile[keyname] = "absent" -> MsReturn(NoSigner, "open: no such file", 0)
         [] keyFile[keyname] = "denied" -> MsReturn(NoSigner, "open: permission denied", 1)
         [] OTHER -> /\ mpc' = "ms_read"
                     /\ UNCHANGED <<signer, err, diag, tmpfile>>
    /\ UNCHANGED <<buf, deferred>>
    /\ UNCHANGED MsUnchanged

\* buf, err := ioutil.ReadAll(fp), then the test for "ENCRYPTED".
MsRead ==
    /\ mpc = "ms_read"
    /\ \E ok \in BOOLEAN :
        IF ok
          THEN /\ buf' = FileContents(keyFile[keyname], keyname)
               /\ mpc' = IF ContainsEncrypted(buf') THEN "ms_tmp" ELSE "ms_parse"
               /\ UNCHANGED <<signer, err, diag, tmpfile>>
          ELSE /\ MsReturn(NoSigner, "read", 1)
               /\ UNCHANGED buf
    /\ UNCHANGED deferred
    /\ UNCHANGED MsUnchanged

\* tmpfp, err = ioutil.TempFile("", "key"); the defer; the "is encrypted" notice.
MsTempFile ==
    /\ mpc = "ms_tmp"
    /\ \E ok \in BOOLEAN :
        IF ok
          THEN /\ tmpfile' = "exists"
               /\ deferred' = TRUE
               /\ diag' = diag + 1
               /\ mpc' = "ms_write"
               /\ UNCHANGED <<signer, err>>
          ELSE /\ MsReturn(NoSigner, "tempfile", 1)
               /\ UNCHANGED deferred
    /\ UNCHANGED buf
    /\ UNCHANGED MsUnchanged

\* A step of the decryption path that either fails, is reported with n
\* diagnostics and returns, or moves on to the next step.
MsStep(from, to, failure, n) ==
    /\ mpc = from
    /\ \E ok \in BOOLEAN :
        IF ok
          THEN /\ mpc' = to
               /\ UNCHANGED <<signer, err, diag, tmpfile>>
          ELSE MsReturn(NoSigner, failure, n)
    /\ UNCHANGED <<buf, deferred>>
    /\ UNCHANGED MsUnchanged

\* _, err = tmpfp.Write(buf)
MsWrite == MsStep("ms_write", "ms_close", "write", 1)

\* err = tmpfp.Close()
MsClose == MsStep("ms_close", "ms_keygen", "close", 1)

\* out, err = exec.Command("ssh-keygen", "-f", tmpName, "-N", "", "-p").CombinedOutput()
MsKeygen == MsStep("ms_keygen", "ms_reopen", "ssh-keygen", 1)

\* tmpfp, err = os.Open(tmpName)
MsReopen == MsStep("ms_reopen", "ms_reread", "open back", 1)

\* buf, err = ioutil.ReadAll(tmpfp): a failure returns without a report;
\* on success tmpfp.Close(); os.Remove(tmpName).
MsReread ==
    /\ mpc = "ms_reread"
    /\ \E ok \in BOOLEAN :
        IF ok
          THEN /\ buf' = KeygenDecrypt(buf)
               /\ tmpfile' = "removed"
               /\ mpc' = "ms_parse"
               /\ UNCHANGED <<signer, err, diag>>
          ELSE /\ MsReturn(NoSigner, "read back", 0)
               /\ UNCHANGED buf
    /\ UNCHANGED deferred
    /\ UNCHANGED MsUnchanged

\* Variant: a parse failure is returned without a report.
MsParseSilent ==
    /\ mpc = "ms_parse"
    /\ IF ParseOK(buf)
         THEN MsReturn(ParsePrivateKey(buf), NoErr, 0)
         ELSE MsReturn(NoSigner, "parse", 0)
    /\ UNCHANGED <<buf, deferred>>
    /\ UNCHANGED MsUnchanged

\* signer, err = ssh.ParsePrivateKey(buf)
MsParse ==
    /\ mpc = "ms_parse"
    /\ IF ParseOK(buf)
         THEN MsReturn(ParsePrivateKey(buf), NoErr, 0)
         ELSE MsReturn(NoSigner, "parse", 1)
    /\ UNCHANGED <<buf, deferred>>
    /\ UNCHANGED MsUnchanged

\* ----------------------------------------------------------- makeKeyring
\* Variant: the signer is appended whatever err is.
CollectSignerAlways(ss, s, e) == Append(ss, s)

\* if err == nil { signers = append(signers, signer) }
CollectSigner(ss, s, e) == IF e = NoErr THEN Append(ss, s) ELSE ss

\* makeKeyring's loop body after makeSigner returned, then the next key.
KeyringCollect ==
    /\ mpc = "ms_ret"
    /\ signers' = CollectSigner(signers, signer, err)
    /\ acquired' = Append(acquired, err = NoErr)
    /\ keyIdx' = keyIdx + 1
    /\ mpc' = IF keyIdx < Len(keys) THEN "ms_open" ELSE "mk_ret"
    /\ buf' = <<>>
    /\ tmpfile' = "none"
    /\ deferred' = FALSE
    /\ signer' = NoSigner
    /\ err' = NoErr
    /\ diag' = 0
    /\ UNCHANGED <<envVars, usage, containerVars, merr, exitCode, stdout, keyring, dispatchVars, pc, configVars, sessionVars>>

\* if len(keys) == 0 { return nil }; return ssh.ClientAuthKeyring(&SignerContainer{signers})
KeyringOf(ks, ss) == IF Len(ks) = 0 THEN NilAuth ELSE [method |-> "keyring", signers |-> ss]

\* keyring = makeKeyring() in initialize; main goes on to mssh or mscp.
MakeKeyringReturn ==
    /\ mpc = "mk_ret"
    /\ keyring' = KeyringOf(keys, signers)
    /\ mpc' = IF prog = "mscp" THEN "mscp_open" ELSE "launch"
    /\ UNCHANGED <<envVars, usage, containerVars, merr, exitCode, stdout, keyIdx, signers, acquired,
                   signerVars, dispatchVars, pc,
                   configVars, sessionVars>>


\* ------------------------------------------------------------------ mscp
\* Variant: the failure is ignored and mscp goes on to dispatch.
PanicIgnored ==
    /\ mpc' = "launch"
    /\ UNCHANGED exitCode

\* panic("Cannot open ..." / "Cannot read ..."): the process dies.
Panic ==
    /\ mpc' = "panicked"
    /\ exitCode' = PanicExitCode

\* fp, err := os.Open(source); panic on failure.
MscpOpen ==
    /\ mpc = "mscp_open"
    /\ \E ok \in BOOLEAN :
        IF ok THEN /\ mpc' = "mscp_read"
                   /\ UNCHANGED <<exitCode, merr>>
              ELSE /\ merr' = "open"
                   /\ Panic
    /\ UNCHANGED <<envVars, usage, containerVars, stdout, keyringVars, signerVars, dispatchVars, pc, configVars, sessionVars>>

\* contents, err := ioutil.ReadAll(fp); panic on failure.
MscpRead ==
    /\ mpc = "mscp_read"
    /\ \E ok \in BOOLEAN :
        IF ok THEN /\ mpc' = "launch"
                   /\ UNCHANGED <<exitCode, merr>>
              ELSE /\ merr' = "read"
                   /\ Panic
    /\ UNCHANGED <<envVars, usage, containerVars, stdout, keyringVars, signerVars, dispatchVars, pc, configVars, sessionVars>>

\* ---------------------------------------------------- mssh / mscp fan-out
\* Variant: the goroutine reads the loop variable, which holds the last host.
TaskHostOfLoopVariable(i) == hostnames[Len(hostnames)]

\* go func(host string) { ... }(hostname): the goroutine's own host.
TaskHost(i) == hostnames[i]

\* for _, hostname := range hostnames { go func(host string) {...}(hostname) }:
\* one iteration starts one goroutine; after the last host the collecting loop
\* begins with i := 0.
Launch ==
    /\ mpc = "launch"
    /\ launched < Len(hostnames)
    /\ launched' = launched + 1
    /\ pc' = [pc EXCEPT ![launched + 1] = "start"]
    /\ mpc' = IF launched + 1 = Len(hostnames) THEN "collect" ELSE "launch"
    /\ UNCHANGED <<envVars, usage, containerVars, merr, exitCode, stdout, keyringVars, signerVars, received, resultsChan,
                   result, configVars, sessionVars>>

\* Variant: the collecting loop stops one result short.
CollectCountShort == Len(hostnames) - 1

\* for i := 0; i < len(hostnames); i++
CollectCount == Len(hostnames)

\* The payload of a received result: res.result (mssh), res.err (mscp).
Payload(res) == IF prog = "mscp" THEN res.err ELSE res.result

\* Variant: the collecting loop starts only when every goroutine has ended.
ReceiveAfterAll ==
    /\ mpc = "collect"
    /\ \A i \in Tasks : pc[i] = "done"
    /\ received < CollectCount
    /\ Len(resultsChan) > 0
    /\ result' = MapPut(result, Head(resultsChan).hostname, Payload(Head(resultsChan)))
    /\ resultsChan' = Tail(resultsChan)
    /\ received' = received + 1
    /\ UNCHANGED <<envVars, usage, containerVars, merr, mainVars, keyringVars, signerVars, launched, pc, configVars, sessionVars>>

\* res := <-resultsChan; result[res.hostname] = res.result
Receive ==
    /\ mpc = "collect"
    /\ received < CollectCount
    /\ Len(resultsChan) > 0
    /\ result' = MapPut(result, Head(resultsChan).hostname, Payload(Head(resultsChan)))
    /\ resultsChan' = Tail(resultsChan)
    /\ received' = received + 1
    /\ UNCHANGED <<envVars, usage, containerVars, merr, mainVars, keyringVars, signerVars, launched, pc, configVars, sessionVars>>

\* the collecting loop is over: mssh / mscp return the map
Return ==
    /\ mpc = "collect"
    /\ received >= CollectCount
    /\ mpc' = "returned"
    /\ UNCHANGED <<envVars, usage, containerVars, merr, exitCode, stdout, keyringVars, signerVars, dispatchVars, pc,
                   configVars, sessionVars>>

\* main: fmt.Println("\n"), then one line per map entry; the process ends.
MainPrint ==
    /\ mpc = "returned"
    /\ stdout' = stdout + 1 + Cardinality(DOMAIN result)
    /\ mpc' = "exited"
    /\ exitCode' = 0
    /\ UNCHANGED <<envVars, usage, containerVars, merr, keyringVars, signerVars, dispatchVars, pc, configVars, sessionVars>>

\* ------------------------------------------------- getSession / makeConfig
\* Variant: the keyring is left out of the configuration.
ConfigAuthWithoutKeyring(auth) == auth

\* if keyring != nil { clientAuth = append(clientAuth, keyring) }; the Auth
\* of the returned &ssh.ClientConfig.
ConfigAuth(auth) == IF keyring /= NilAuth THEN Append(auth, keyring) ELSE auth

TaskUnchanged == <<envVars, usage, containerVars, merr, mainVars, keyringVars, signerVars, launched, received, result>>

\* getSession calls makeConfig(): clientAuth := []; with SSH_AUTH_SOCK unset
\* the agent loop is skipped and the configuration is complete.
TaskStart(i) ==
    /\ pc[i] = "start"
    /\ clientAuth' = [clientAuth EXCEPT ![i] = <<>>]
    /\ IF sshAuthSock /= ""
         THEN /\ pc' = [pc EXCEPT ![i] = "agentDial"]
              /\ UNCHANGED config
         ELSE /\ pc' = [pc EXCEPT ![i] = "sshDial"]
              /\ config' = [config EXCEPT ![i] = ClientConfig(ConfigAuth(<<>>))]
    /\ UNCHANGED <<dialErr, sleepMs, cfgDiag, identities, agentFaults, sessionVars, resultsChan>>
    /\ UNCHANGED TaskUnchanged

\* sock, err := net.Dial("unix", sshAuthSock): success goes on to the agent,
\* a temporary error sleeps and dials again, any other error is reported and
\* leaves the loop.
AgentDial(i) ==
    /\ pc[i] = "agentDial"
    /\ \/ /\ dialErr' = [dialErr EXCEPT ![i] = NoErr]
          /\ pc' = [pc EXCEPT ![i] = "identities"]
          /\ UNCHANGED <<sleepMs, config, cfgDiag, agentFaults>>
       \/ /\ agentFaults > 0
          /\ agentFaults' = agentFaults - 1
          /\ dialErr' = [dialErr EXCEPT ![i] = "temporary"]
          /\ \E d \in RandIntn(JitterMs) : sleepMs' = [sleepMs EXCEPT ![i] = d]
          /\ pc' = [pc EXCEPT ![i] = "agentSleep"]
          /\ UNCHANGED <<config, cfgDiag>>
       \/ /\ dialErr' = [dialErr EXCEPT ![i] = "permanent"]
          /\ cfgDiag' = [cfgDiag EXCEPT ![i] = @ + 1]
          /\ config' = [config EXCEPT ![i] = ClientConfig(ConfigAuth(clientAuth[i]))]
          /\ pc' = [pc EXCEPT ![i] = "sshDial"]
          /\ UNCHANGED <<sleepMs, agentFaults>>
    /\ UNCHANGED <<clientAuth, identities, sessionVars, resultsChan>>
    /\ UNCHANGED TaskUnchanged

\* time.Sleep is over; continue
AgentWake(i) ==
    /\ pc[i] = "agentSleep"
    /\ sleepMs' = [sleepMs EXCEPT ![i] = 0]
    /\ pc' = [pc EXCEPT ![i] = "agentDial"]
    /\ UNCHANGED <<dialErr, clientAuth, config, cfgDiag, identities, agentFaults, sessionVars, resultsChan>>
    /\ UNCHANGED TaskUnchanged

\* Variant: the agent is registered whenever the request did not fail.
AuthAfterIdentitiesEmpty(auth, outcome) ==
    IF outcome /= "error" THEN Append(auth, AgentAuth) ELSE auth

\* else if len(identities) > 0 { clientAuth = append(clientAuth, ssh.ClientAuthAgent(agent)) }
AuthAfterIdentities(auth, outcome) ==
    IF outcome = "some" THEN Append(auth, AgentAuth) ELSE auth

\* identities, err := agent.RequestIdentities(): an error is reported, an
\* empty list is ignored, a non-empty one registers the agent; then break.
RequestIdentities(i) ==
    /\ pc[i] = "identities"
    /\ \E outcome \in IdentityOutcomes :
        /\ identities' = [identities EXCEPT ![i] = outcome]
        /\ clientAuth' = [clientAuth EXCEPT ![i] = AuthAfterIdentities(@, outcome)]
        /\ cfgDiag' = [cfgDiag EXCEPT ![i] = IF outcome = "error" THEN @ + 1 ELSE @]
    /\ config' = [config EXCEPT ![i] = ClientConfig(ConfigAuth(clientAuth'[i]))]
    /\ pc' = [pc EXCEPT ![i] = "sshDial"]
    /\ UNCHANGED <<dialErr, sleepMs, agentFaults, sessionVars, resultsChan>>
    /\ UNCHANGED TaskUnchanged

\* The server accepts a client only if one of its methods holds a credential.
CanAuthenticate(auth) ==
    \E k \in 1..Len(auth) : auth[k].method = "agent" \/ Len(auth[k].signers) > 0

\* Variant: on an error the goroutine ends without sending anything.
TaskFailNoSend(i, e) ==
    /\ terr' = [terr EXCEPT ![i] = e]
    /\ tres' = [tres EXCEPT ![i] = EmptyResult]
    /\ pc' = [pc EXCEPT ![i] = "done"]

\* execute / uploadFile return e (and the empty result) to the goroutine.
TaskFail(i, e) ==
    /\ terr' = [terr EXCEPT ![i] = e]
    /\ tres' = [tres EXCEPT ![i] = EmptyResult]
    /\ pc' = [pc EXCEPT ![i] = IF prog = "mscp" THEN "send" ELSE "ret"]

\* client, err := ssh.Dial("tcp", hostname+":22", makeConfig()): connect and
\* authenticate with the configuration just built; makeConfig's locals and the
\* temporary holding its result are gone once the call is made.
SshDial(i) ==
    /\ pc[i] = "sshDial"
    /\ \/ /\ CanAuthenticate(config[i].Auth)
          /\ conn' = [conn EXCEPT ![i] = "open"]
          /\ pc' = [pc EXCEPT ![i] = "newSession"]
          /\ UNCHANGED <<tres, terr>>
       \/ /\ TaskFail(i, "dial")
          /\ UNCHANGED conn
    /\ dialErr' = [dialErr EXCEPT ![i] = NoErr]
    /\ clientAuth' = [clientAuth EXCEPT ![i] = <<>>]
    /\ config' = [config EXCEPT ![i] = NoConfig]
    /\ cfgDiag' = [cfgDiag EXCEPT ![i] = 0]
    /\ identities' = [identities EXCEPT ![i] = NotRequested]
    /\ UNCHANGED <<session, sleepMs, agentFaults, resultsChan>>
    /\ UNCHANGED TaskUnchanged

\* session, err = client.NewSession()
NewSession(i) ==
    /\ pc[i] = "newSession"
    /\ \/ /\ session' = [session EXCEPT ![i] = "open"]
          /\ pc' = [pc EXCEPT ![i] = IF prog = "mscp" THEN "stdinPipe" ELSE "run"]
          /\ UNCHANGED <<tres, terr>>
       \/ /\ TaskFail(i, "new session")
          /\ UNCHANGED session
    /\ UNCHANGED <<conn, configVars, resultsChan>>
    /\ UNCHANGED TaskUnchanged

\* ---------------------------------------------------------------- execute
\* err = session.Run(cmd); result = b.String() only when Run succeeded.
Run(i) ==
    /\ pc[i] = "run"
    /\ \/ /\ tres' = [tres EXCEPT ![i] = RemoteStdout(TaskHost(i))]
          /\ terr' = [terr EXCEPT ![i] = NoErr]
          /\ pc' = [pc EXCEPT ![i] = "ret"]
       \/ TaskFail(i, "run")
    /\ UNCHANGED <<conn, session, configVars, resultsChan>>
    /\ UNCHANGED TaskUnchanged

\* Variant: the result of a failed execute is sent as it is.
SshPayloadUnmarked(r, e) == r

\* if err != nil { fmt.Println("Error at "+host...); result = "(error)\n" }
SshPayload(r, e) == IF e /= NoErr THEN ErrorMarker ELSE r

MsshCheck(i) ==
    /\ pc[i] = "ret"
    /\ tres' = [tres EXCEPT ![i] = SshPayload(tres[i], terr[i])]
    /\ stdout' = IF terr[i] /= NoErr THEN stdout + 1 ELSE stdout
    /\ pc' = [pc EXCEPT ![i] = "send"]
    /\ UNCHANGED <<envVars, usage, containerVars, merr, mpc, exitCode, keyringVars, signerVars, dispatchVars, configVars,
                   conn, session, terr>>

\* ------------------------------------------------------------- uploadFile
\* Variant: the stage's error is not tested; the next stage follows anyway.
UploadStageUnchecked(i, from, to, failure) ==
    /\ pc[i] = from
    /\ pc' = [pc EXCEPT ![i] = to]
    /\ \E e \in {NoErr, failure} : terr' = [terr EXCEPT ![i] = e]
    /\ UNCHANGED <<tres, conn, session, configVars, resultsChan>>
    /\ UNCHANGED TaskUnchanged

\* One stage of uploadFile: it fails and uploadFile returns that error, or
\* the next stage follows; after the last stage uploadFile returns nil.
UploadStage(i, from, to, failure) ==
    /\ pc[i] = from
    /\ \/ /\ pc' = [pc EXCEPT ![i] = to]
          /\ terr' = [terr EXCEPT ![i] = NoErr]
          /\ UNCHANGED tres
       \/ TaskFail(i, failure)
    /\ UNCHANGED <<conn, session, configVars, resultsChan>>
    /\ UNCHANGED TaskUnchanged

\* stdinPipe, err := session.StdinPipe()
StdinPipe(i) == UploadStage(i, "stdinPipe", "startCmd", "stdin pipe")
\* err = session.Start(cmd)
StartCmd(i) == UploadStage(i, "startCmd", "write", "start")
\* _, err = stdinPipe.Write(contents)
WriteContents(i) == UploadStage(i, "write", "closePipe", "write")
\* err = stdinPipe.Close()
ClosePipe(i) == UploadStage(i, "closePipe", "wait", "close")
\* err = session.Wait()
Wait(i) == UploadStage(i, "wait", "send", "wait")

\* ---------------------------------------------------------------- sending
\* &SshResult{hostname: host, result: result} / &ScpResult{hostname: host, err: ...}
Message(i) ==
    IF prog = "mscp" THEN [hostname |-> TaskHost(i), err |-> terr[i]]
                     ELSE [hostname |-> TaskHost(i), result |-> tres[i]]

\* resultsChan <- ...: blocks while the buffer is full.
Send(i) ==
    /\ pc[i] = "send"
    /\ Len(resultsChan) < ChanCap
    /\ resultsChan' = Append(resultsChan, Message(i))
    /\ pc' = [pc EXCEPT ![i] = "done"]
    /\ UNCHANGED <<configVars, sessionVars>>
    /\ UNCHANGED TaskUnchanged

\* ------------------------------------------------------------------- Next
MakeSigner ==
    \/ MsOpen \/ MsRead \/ MsTempFile \/ MsWrite \/ MsClose
    \/ MsKeygen \/ MsReopen \/ MsReread \/ MsParse

Next ==
    \/ Main
    \/ MakeSigner
    \/ KeyringCollect
    \/ MakeKeyringReturn
    \/ MscpOpen
    \/ MscpRead
    \/ Launch
    \/ Receive
    \/ Return
    \/ MainPrint
    \/ \E i \in Tasks : TaskStart(i)
    \/ \E i \in Tasks : AgentDial(i)
    \/ \E i \in Tasks : AgentWake(i)
    \/ \E i \in Tasks : RequestIdentities(i)
    \/ \E i \in Tasks : SshDial(i)
    \/ \E i \in Tasks : NewSession(i)
    \/ \E i \in Tasks : Run(i)
    \/ \E i \in Tasks : MsshCheck(i)
    \/ \E i \in Tasks : StdinPipe(i)
    \/ \E i \in Tasks : StartCmd(i)
    \/ \E i \in Tasks : WriteContents(i)
    \/ \E i \in Tasks : ClosePipe(i)
    \/ \E i \in Tasks : Wait(i)
    \/ \E i \in Tasks : Send(i)

Spec == Init /\ [][Next]_vars


\* ------------------------------------------------------- SignerContainer
\* Largest absolute value of the index a caller passes to Key or Sign.
MaxIndex == 3

\* signer.PublicKey() and a signature of the signer over data.
NilKey == <<>>
NilSig == <<>>
PublicKey(s) == <<"pub", s[2]>>
Signature(s, data) == <<"sig", s[2], data>>

\* The result of indexing a slice of length n with i: t.signers[i] panics with
\* "index out of range" unless 0 <= i < n.
IndexPanics(n, i) == i < 0 \/ i >= n

Returned(key, sig, e) == [state |-> "returned", key |-> key, sig |-> sig, err |-> e]
Panicked == [state |-> "panic", key |-> NilKey, sig |-> NilSig, err |-> NoErr]

\* func (t *SignerContainer) Key(i int) (key ssh.PublicKey, err error):
\* if i >= len(t.signers) { return }; key = t.signers[i].PublicKey()
Key(ss, i) ==
    IF i >= Len(ss) THEN Returned(NilKey, NilSig, NoErr)
    ELSE IF IndexPanics(Len(ss), i) THEN Panicked
    ELSE Returned(PublicKey(ss[i + 1]), NilSig, NoErr)

\* func (t *SignerContainer) Sign(i int, rand io.Reader, data []byte) (sig []byte, err error):
\* if i >= len(t.signers) { return }; sig, err = t.signers[i].Sign(rand, data);
\* signs tells whether the signer's own Sign succeeds.
Sign(ss, i, data, signs) ==
    IF i >= Len(ss) THEN Returned(NilKey, NilSig, NoErr)
    ELSE IF IndexPanics(Len(ss), i) THEN Panicked
    ELSE IF signs THEN Returned(NilKey, Signature(ss[i + 1], data), NoErr)
    ELSE Returned(NilKey, NilSig, "sign")

\* The Signers of the first n key files of which acq tells the acquired ones.
RECURSIVE SignersFrom(_, _)
SignersFrom(acq, n) ==
    IF n = 0 THEN <<>>
    ELSE IF acq[n] THEN Append(SignersFrom(acq, n - 1), <<"signer", keys[n]>>)
                   ELSE SignersFrom(acq, n - 1)

\* The calls a user of the keyring can make.
ContainerCalls ==
    {[op |-> "Key", i |-> i, data |-> ""] : i \in (0 - MaxIndex)..MaxIndex}
      \cup {[op |-> "Sign", i |-> i, data |-> d] : i \in (0 - MaxIndex)..MaxIndex, d \in {"d1", "d2"}}

\* mssh cmd h1 with no agent socket, after initialize acquired the key files
\* that acq tells: the task of h1 is in ssh.Dial with its configuration, and
\* the authentication is about to make the call c on the keyring.
DuringDial(acq, c) ==
    /\ prog = "mssh"
    /\ args = <<"cmd", HostNames[1]>>
    /\ sshAuthSock = ""
    /\ keyFile = [n \in {keys[k] : k \in 1..Len(keys)} |->
                    IF \E k \in 1..Len(keys) : keys[k] = n /\ acq[k] THEN "plain" ELSE "absent"]
    /\ mpc = "collect"
    /\ exitCode = -1
    /\ stdout = 0
    /\ usage = 0
    /\ keyIdx = Len(keys) + 1
    /\ signers = SignersFrom(acq, Len(keys))
    /\ acquired = acq
    /\ keyring = KeyringOf(keys, SignersFrom(acq, Len(keys)))
    /\ buf = <<>>
    /\ tmpfile = "none"
    /\ deferred = FALSE
    /\ signer = NoSigner
    /\ err = NoErr
    /\ diag = 0
    /\ merr = NoErr
    /\ launched = 1
    /\ received = 0
    /\ resultsChan = <<>>
    /\ result = EmptyMap
    /\ pc = [i \in Tasks |-> "sshDial"]
    /\ dialErr = [i \in Tasks |-> NoErr]
    /\ sleepMs = [i \in Tasks |-> 0]
    /\ clientAuth = [i \in Tasks |-> <<>>]
    /\ config = [i \in Tasks |-> ClientConfig(<<KeyringOf(keys, SignersFrom(acq, Len(keys)))>>)]
    /\ cfgDiag = [i \in Tasks |-> 0]
    /\ identities = [i \in Tasks |-> NotRequested]
    /\ conn = [i \in Tasks |-> "none"]
    /\ session = [i \in Tasks |-> "none"]
    /\ tres = [i \in Tasks |-> EmptyResult]
    /\ terr = [i \in Tasks |-> NoErr]
    /\ agentFaults = 0
    /\ call = c
    /\ ret = NoReturn

ContainerInit ==
    \E a \in BOOLEAN, b \in BOOLEAN, c \in ContainerCalls : DuringDial(<<a, b>>, c)

ContainerUnchanged ==
    <<envVars, usage, merr, mainVars, keyringVars, signerVars, dispatchVars, pc, configVars,
      sessionVars, call>>

\* The call of Key(i) on the keyring's container runs.
KeyCall ==
    /\ call.op = "Key"
    /\ ret = NoReturn
    /\ ret' = Key(keyring.signers, call.i)
    /\ UNCHANGED ContainerUnchanged

\* The call of Sign(i, rand, data) on the keyring's container runs.
SignCall ==
    /\ call.op = "Sign"
    /\ ret = NoReturn
    /\ \E signs \in BOOLEAN : ret' = Sign(keyring.signers, call.i, call.data, signs)
    /\ UNCHANGED ContainerUnchanged

ContainerNext == KeyCall \/ SignCall

SpecContainer == ContainerInit /\ [][ContainerNext]_vars


\* ------------------------------------------------- a list wider than the channel
\* One host more than the channel buffers.
WideHosts == ChanCap + 1

\* The host list of n elements, all naming the first host.
WideList(n) == [k \in 1..n |-> HostNames[1]]

\* Program p on the host list hs with both key files usable and no agent
\* socket, at the point where every goroutine has been started, the remote
\* work of every host has ended (failed: in ssh.Dial for every host, else
\* with success) and no goroutine has sent its result yet.
AllAtSend(p, hs, failed) ==
    /\ prog = p
    /\ args = FixedArgs(p) \o hs
    /\ sshAuthSock = ""
    /\ keyFile = [n \in {keys[k] : k \in 1..Len(keys)} |-> "plain"]
    /\ mpc = "collect"
    /\ exitCode = -1
    /\ stdout = IF failed /\ p = "mssh" THEN Len(hs) ELSE 0
    /\ usage = 0
    /\ keyIdx = Len(keys) + 1
    /\ signers = [k \in 1..Len(keys) |-> <<"signer", keys[k]>>]
    /\ acquired = [k \in 1..Len(keys) |-> TRUE]
    /\ keyring = KeyringOf(keys, [k \in 1..Len(keys) |-> <<"signer", keys[k]>>])
    /\ buf = <<>>
    /\ tmpfile = "none"
    /\ deferred = FALSE
    /\ signer = NoSigner
    /\ err = NoErr
    /\ diag = 0
    /\ merr = NoErr
    /\ launched = Len(hs)
    /\ received = 0
    /\ resultsChan = <<>>
    /\ result = EmptyMap
    /\ pc = [i \in 1..Len(hs) |-> "send"]
    /\ dialErr = [i \in 1..Len(hs) |-> NoErr]
    /\ sleepMs = [i \in 1..Len(hs) |-> 0]
    /\ clientAuth = [i \in 1..Len(hs) |-> <<>>]
    /\ config = [i \in 1..Len(hs) |-> NoConfig]
    /\ cfgDiag = [i \in 1..Len(hs) |-> 0]
    /\ identities = [i \in 1..Len(hs) |-> NotRequested]
    /\ conn = [i \in 1..Len(hs) |-> IF failed THEN "none" ELSE "open"]
    /\ session = [i \in 1..Len(hs) |-> IF failed THEN "none" ELSE "open"]
    /\ tres = [i \in 1..Len(hs) |->
                 IF p = "mscp" THEN EmptyResult
                 ELSE IF failed THEN ErrorMarker ELSE RemoteStdout(hs[i])]
    /\ terr = [i \in 1..Len(hs) |-> IF failed THEN "dial" ELSE NoErr]
    /\ agentFaults = 0
    /\ call = NoCall
    /\ ret = NoReturn

ChannelInit ==
    \E p \in Programs, failed \in BOOLEAN : AllAtSend(p, WideList(WideHosts), failed)

\* What is left to do: the goroutines send, the collecting loop receives,
\* mssh / mscp return and main prints.
ChannelNext ==
    \/ \E i \in Tasks : Send(i)
    \/ Receive
    \/ Return
    \/ MainPrint

\* The scheduler runs a goroutine that can make a step: the main goroutine,
\* and one or another of the goroutines ready to send.
SpecChannel ==
    /\ ChannelInit
    /\ [][ChannelNext]_vars
    /\ WF_vars(Receive \/ Return \/ MainPrint)
    /\ WF_vars(\E i \in Tasks : Send(i))


\* ---------------------------------------------------------------- claims
\* mssh / mscp have returned their map to main.
MapReturned == mpc = "returned" \/ (mpc = "exited" /\ exitCode = 0)

HostSet == {hostnames[i] : i \in Tasks}

\* C1: for a list of N pairwise distinct hosts the map returned by mssh or
\* mscp has exactly N entries, one for each requested host and none for any
\* other, whatever hosts failed and in whatever order the tasks finished.
C1_OneEntryPerHost ==
    (MapReturned /\ Distinct(hostnames)) =>
        /\ DOMAIN result = HostSet
        /\ Cardinality(DOMAIN result) = Len(hostnames)

\* C1 witness: a returned map for MaxHosts distinct hosts of which one failed
\* and another succeeded.
C1_Witness ==
    /\ MapReturned
    /\ Distinct(hostnames)
    /\ Len(hostnames) = MaxHosts
    /\ \E i, j \in Tasks : i < j /\ terr[i] = NoErr /\ terr[j] /= NoErr

\* C2: in mssh the map value of a host of a duplicate-free list is the output
\* of that host's own execute call when it returned no error and the error
\* marker when it returned an error, at any moment the entry exists and
\* whatever the other hosts' tasks did or are doing.
C2_PerHostIsolation ==
    (prog = "mssh" /\ Distinct(hostnames)) =>
        \A i \in Tasks :
            hostnames[i] \in DOMAIN result =>
                result[hostnames[i]] =
                    IF terr[i] = NoErr THEN RemoteStdout(hostnames[i]) ELSE ErrorMarker

\* C2 witness: the map is returned with the output of one host and the error
\* marker of another.
C2_Witness ==
    /\ prog = "mssh"
    /\ MapReturned
    /\ Distinct(hostnames)
    /\ \E i, j \in Tasks :
        /\ terr[i] = NoErr /\ result[hostnames[i]] = RemoteStdout(hostnames[i])
        /\ terr[j] /= NoErr /\ result[hostnames[j]] = ErrorMarker

\* C3: mssh / mscp return only when every launched host task has delivered
\* its result and the collector has received all of them; a failed host does
\* not stop the collector nor keep another host's result out.
C3_NoEarlyReturn ==
    MapReturned =>
        /\ launched = Len(hostnames)
        /\ received = Len(hostnames)
        /\ resultsChan = <<>>
        /\ \A i \in Tasks : pc[i] = "done"
        /\ \A i \in Tasks : hostnames[i] \in DOMAIN result

\* C3 witness: the dispatcher has returned although the first host failed.
C3_Witness ==
    /\ MapReturned
    /\ Len(hostnames) = MaxHosts
    /\ terr[1] /= NoErr
    /\ \A i \in Tasks : pc[i] = "done"


\* The task is inside makeConfig's agent step.
InAgentStep(i) == pc[i] \in {"agentDial", "agentSleep", "identities"}

\* makeConfig has returned to getSession and ssh.Dial has not been called yet.
ConfigBuilt(i) == pc[i] = "sshDial"

HasAgent(auth) == \E k \in 1..Len(auth) : auth[k].method = "agent"

\* initialize has run to its end: makeKeyring tried every key and the global
\* keyring holds its result.
KeyringResolved ==
    /\ mpc \in {"launch", "collect", "returned", "exited"}
    /\ keyIdx = Len(keys) + 1
    /\ keyring = KeyringOf(keys, signers)

C5_NoMethodsWithoutAgentAndKeys ==
    \A i \in Tasks :
        (/\ ConfigBuilt(i)
         /\ sshAuthSock = ""
         /\ \A k \in 1..Len(keys) : keyFile[keys[k]] = "absent")
            => Len(config[i].Auth) = 0

\* The agent loop in a state: a task sleeps only after a temporary error, for
\* less than JitterMs milliseconds, with nothing registered, reported or
\* built; after an error that is not temporary the loop is over with one
\* diagnostic, no agent method and a configuration.
AgentLoopState ==
    \A i \in Tasks :
        /\ pc[i] = "agentSleep" =>
            /\ dialErr[i] = "temporary"
            /\ sleepMs[i] >= 0 /\ sleepMs[i] < 100
            /\ clientAuth[i] = <<>> /\ config[i] = NoConfig /\ cfgDiag[i] = 0
        /\ (dialErr[i] = "temporary" /\ pc[i] = "agentDial") =>
            (clientAuth[i] = <<>> /\ config[i] = NoConfig /\ cfgDiag[i] = 0)
        /\ dialErr[i] = "temporary" => pc[i] \in {"agentSleep", "agentDial"}
        /\ dialErr[i] = "permanent" =>
            /\ ConfigBuilt(i)
            /\ cfgDiag[i] = 1
            /\ config[i] /= NoConfig /\ ~HasAgent(config[i].Auth)
        /\ mpc /= "panicked" \/ merr /= NoErr

\* The agent loop in a step: a sleeping task next dials again, and a task that
\* has left the loop (by success or by a permanent error) never dials again.
AgentLoopStep ==
    \A i \in Tasks :
        /\ pc[i] = "agentSleep" => pc'[i] \in {"agentSleep", "agentDial"}
        /\ pc[i] \in {"identities", "sshDial", "newSession", "run", "ret", "stdinPipe",
                      "startCmd", "write", "closePipe", "wait", "send", "done"}
              => pc'[i] \notin {"agentDial", "agentSleep"}

\* C6: every temporary error of the agent dial is followed by a sleep of less
\* than 100 ms and another dial, never by giving up or registering the agent;
\* the first error that is not temporary ends the loop with one diagnostic and
\* no agent method, and makeConfig still returns a configuration; once the
\* dial succeeded or failed for good the loop is not entered again.
C6_AgentDialRetry == []AgentLoopState /\ [][AgentLoopStep]_vars

\* C6 witness: after a temporary error and a retry the dial failed for good
\* and the configuration was built without the agent.
C6_Witness ==
    \E i \in Tasks :
        /\ agentFaults < MaxTransient
        /\ dialErr[i] = "permanent"
        /\ ConfigBuilt(i)
        /\ ~HasAgent(config[i].Auth)

\* makeSigner has returned to makeKeyring.
SignerReturned == mpc = "ms_ret"

\* The call went through the decryption path (a temporary file was created).
Decrypted == tmpfile /= "none"

\* C7 (as stated): a missing key file gives no Signer and no diagnostic; a key
\* file whose final bytes fail to parse gives no Signer and exactly one
\* diagnostic, with or without decryption.
C7_OneDiagnosticOnParseFailure ==
    SignerReturned =>
        /\ keyFile[keyname] = "absent" => (signer = NoSigner /\ err /= NoErr /\ diag = 0)
        /\ err = "parse" => (signer = NoSigner /\ diag = 1)

\* C7 (amended): a missing key file gives no Signer and no diagnostic; a parse
\* failure gives no Signer and one diagnostic on the unencrypted path, and two
\* messages on the decryption path: the "is encrypted" notice, written with
\* the same reportErrorToUser, and the parse diagnostic.
C7_DiagnosticsOnParseFailure ==
    SignerReturned =>
        /\ keyFile[keyname] = "absent" => (signer = NoSigner /\ err /= NoErr /\ diag = 0)
        /\ err = "parse" => (signer = NoSigner /\ diag = IF Decrypted THEN 2 ELSE 1)

\* C7 witness: the parse of a decrypted key failed.
C7_Witness == SignerReturned /\ err = "parse" /\ Decrypted /\ diag = 2

\* C8: whenever makeSigner returns after having created the temporary file,
\* the file no longer exists, on the failure paths as on success.
C8_TempFileRemoved ==
    /\ SignerReturned => tmpfile /= "exists"
    /\ mpc \notin {"ms_tmp", "ms_write", "ms_close", "ms_keygen", "ms_reopen", "ms_reread", "ms_parse"}
          => tmpfile /= "exists"

\* C8 witness: makeSigner returned from a failure after the file was created.
C8_Witness ==
    /\ SignerReturned
    /\ tmpfile = "removed"
    /\ err \in {"write", "close", "ssh-keygen", "open back", "read back"}

\* C9: by the time a host task has delivered its result, every session and
\* connection it opened has been closed.
C9_SessionsClosedOnDelivery ==
    \A i \in Tasks : pc[i] = "done" => (session[i] /= "open" /\ conn[i] /= "open")

\* C10: when opening or reading the source file of mscp fails, no host task
\* is launched, no connection is attempted and no map is returned.
C10_NoDispatchWithoutSource ==
    merr /= NoErr =>
        /\ mpc = "panicked"
        /\ launched = 0 /\ received = 0
        /\ \A i \in Tasks : pc[i] = "idle" /\ conn[i] = "none" /\ session[i] = "none"
        /\ result = EmptyMap /\ resultsChan = <<>>
        /\ ~MapReturned

\* C10 witness: mscp panicked on its source file with MaxHosts hosts listed.
C10_Witness ==
    /\ prog = "mscp"
    /\ mpc = "panicked"
    /\ merr = "read"
    /\ Len(hostnames) = MaxHosts

\* C11: nothing about a host is written to standard output before the
\* dispatcher has returned the full result map: standard output is empty
\* until main prints the map, failures during dispatch included.
C11_NoOutputBeforeCollection ==
    stdout > 0 => (MapReturned /\ received = Len(hostnames))

\* main printed the usage on standard error and left with os.Exit(2) before
\* initialize, mssh or mscp did anything.
UsageExit ==
    /\ mpc = "exited" /\ exitCode = UsageExitCode
    /\ usage = 1 /\ stdout = 0
    /\ keyIdx = 0 /\ acquired = <<>> /\ keyring = NilAuth
    /\ launched = 0 /\ received = 0 /\ result = EmptyMap
    /\ \A i \in Tasks : pc[i] = "idle" /\ conn[i] = "none"

\* C12 (as stated): mssh invoked with a command followed by zero or one host
\* prints the usage on standard error and exits with code 2 without
\* initializing or dispatching.
C12_UsageBelowTwoHosts ==
    (prog = "mssh" /\ Len(hostnames) < 2 /\ mpc /= "main") => UsageExit

\* C12 (amended): mssh prints the usage on standard error and exits with code
\* 2, without initializing or dispatching, exactly when it has fewer than 2
\* arguments (no command, or a command and no host); with a command and one
\* host it initializes and never writes the usage.
C12_UsageBelowOneHost ==
    (prog = "mssh" /\ mpc /= "main") =>
        /\ Len(args) + 1 < MsshMinArgs => UsageExit
        /\ Len(args) + 1 >= MsshMinArgs =>
            (usage = 0 /\ exitCode /= UsageExitCode /\ keyIdx >= 1)

\* C12 witness: mssh with a command and no host has left with the usage.
C12_Witness ==
    /\ prog = "mssh"
    /\ Len(args) = 1
    /\ UsageExit

\* The host tasks that have sent their result and ended.
Delivered == {i \in Tasks : pc[i] = "done"}

\* C13: every host task sends exactly one result, whatever path it took: the
\* results sent (still buffered or already received) are as many as the tasks
\* that have ended, each buffered result names the host of an ended task, and
\* when the dispatcher has returned the channel is empty and no task is left
\* at its send.
C13_ExactlyOneResultPerTask ==
    /\ Cardinality(Delivered) = received + Len(resultsChan)
    /\ \A k \in 1..Len(resultsChan) :
          \E i \in Delivered : resultsChan[k].hostname = hostnames[i]
    /\ MapReturned =>
          /\ resultsChan = <<>>
          /\ \A i \in Tasks : pc[i] = "done"
          /\ received = Len(hostnames)

\* C13 witness: the dispatcher returned after one upload failed while being
\* written and another succeeded; both tasks have sent.
C13_Witness ==
    /\ MapReturned
    /\ prog = "mscp"
    /\ Len(hostnames) = MaxHosts
    /\ \E i, j \in Tasks : terr[i] = "write" /\ terr[j] = NoErr
    /\ Cardinality(Delivered) = MaxHosts

\* C14: the configuration makeConfig returns holds the agent method if and
\* only if an agent socket is configured, the dial succeeded, the identity
\* request succeeded and the agent returned an identity or more; after an
\* identity-request error or an empty list makeConfig still returns a
\* configuration, without the agent method (an error costs one diagnostic,
\* an empty list none).
C14_AgentIffIdentities ==
    \A i \in Tasks :
        /\ ConfigBuilt(i) =>
            (HasAgent(config[i].Auth) <=>
                (/\ sshAuthSock /= ""
                 /\ dialErr[i] = NoErr
                 /\ identities[i] = "some"))
        /\ identities[i] \in {"error", "none"} =>
            /\ ConfigBuilt(i)
            /\ config[i] /= NoConfig
            /\ ~HasAgent(config[i].Auth)
            /\ cfgDiag[i] = IF identities[i] = "error" THEN 1 ELSE 0
        /\ identities[i] /= NotRequested => (sshAuthSock /= "" /\ dialErr[i] = NoErr)

\* C14 witness: the agent answered the dial and returned an empty identity
\* list; the configuration is built without the agent method.
C14_Witness ==
    \E i \in Tasks :
        /\ ConfigBuilt(i)
        /\ identities[i] = "none"
        /\ dialErr[i] = NoErr
        /\ ~HasAgent(config[i].Auth)

\* The Signers of the first n default key files whose makeSigner call
\* returned no error, in file order.
SignersAcquired(n) == SignersFrom(acquired, n)

\* C15: the signers collected are exactly the Signers of the key files whose
\* acquisition succeeded, in file order (id_rsa before id_dsa), and only a
\* well-formed key file is ever acquired; every key file is attempted, the
\* second also after the first failed; the keyring wraps these signers; and a
\* configuration that holds the agent method holds it before the keyring.
C15_KeyringOfAcquiredInOrder ==
    /\ signers = SignersAcquired(Len(acquired))
    /\ Len(acquired) = IF keyIdx = 0 THEN 0 ELSE keyIdx - 1
    /\ \A k \in 1..Len(acquired) : acquired[k] => keyFile[keys[k]] \in {"plain", "encrypted"}
    /\ mpc \notin {"main", "ms_open", "ms_read", "ms_tmp", "ms_write", "ms_close", "ms_keygen",
                   "ms_reopen", "ms_reread", "ms_parse", "ms_ret"}
         => (keyIdx = 0 \/ Len(acquired) = Len(keys))
    /\ KeyringResolved =>
         /\ keyring /= NilAuth
         /\ keyring.signers = SignersAcquired(Len(keys))
    /\ \A i \in Tasks :
         (ConfigBuilt(i) /\ HasAgent(config[i].Auth)) =>
             config[i].Auth = <<AgentAuth, keyring>>

\* C15 witness: acquiring id_rsa failed, id_dsa was still attempted and
\* acquired, and the keyring holds the id_dsa Signer alone.
C15_Witness ==
    /\ KeyringResolved
    /\ acquired = <<FALSE, TRUE>>
    /\ keyring.signers = << <<"signer", "id_dsa">> >>

\* reportErrorToUser calls of the current makeSigner call that report a
\* failure: all of them but the "is encrypted" notice of the decryption path.
FailureDiagnostics == diag - (IF Decrypted THEN 1 ELSE 0)

\* C16: for an encrypted key, a failure of the temp-file creation, of the
\* write, of ssh-keygen, or of reading the file back (re-open or re-read)
\* makes makeSigner return an error and no Signer after a diagnostic for
\* that failure, and the Signer of that key file is not among the signers.
C16_DecryptionFailureReported ==
    (SignerReturned /\ err \in {"tempfile", "write", "ssh-keygen", "open back", "read back"}) =>
        /\ signer = NoSigner
        /\ FailureDiagnostics >= 1
        /\ \A k \in 1..Len(signers) : signers[k] /= <<"signer", keyname>>

\* The stages of uploadFile after makeConfig, in the order of the code, and
\* the error each returns when it fails: ssh.Dial and NewSession (getSession),
\* StdinPipe, Start, Write, Close, Wait.
UploadStages == <<"sshDial", "newSession", "stdinPipe", "startCmd", "write", "closePipe", "wait">>
UploadErrors == <<"dial", "new session", "stdin pipe", "start", "write", "close", "wait">>

\* A task of mscp that is at a stage has had no failure so far; a task that
\* holds an error is past uploadFile; a task that returned nil has its
\* session open.
UploadState ==
    prog = "mscp" =>
        \A i \in Tasks :
            /\ (\E k \in 1..Len(UploadStages) : pc[i] = UploadStages[k]) => terr[i] = NoErr
            /\ terr[i] /= NoErr =>
                  /\ pc[i] \in {"send", "done"}
                  /\ \E k \in 1..Len(UploadErrors) : terr[i] = UploadErrors[k]
            /\ (pc[i] \in {"send", "done"} /\ terr[i] = NoErr) =>
                  (conn[i] = "open" /\ session[i] = "open")

\* A step of a task of mscp that is at stage k: the stage succeeded and stage
\* k+1 is next (the return of nil after the last one), or it failed and
\* uploadFile returns the error of stage k with no later stage attempted.
UploadStep ==
    prog = "mscp" =>
        \A i \in Tasks : \A k \in 1..Len(UploadStages) :
            (pc[i] = UploadStages[k] /\ pc'[i] /= pc[i]) =>
                \/ /\ k < Len(UploadStages)
                   /\ pc'[i] = UploadStages[k + 1]
                   /\ terr'[i] = NoErr
                \/ /\ k = Len(UploadStages)
                   /\ pc'[i] = "send"
                   /\ terr'[i] = NoErr
                \/ /\ pc'[i] = "send"
                   /\ terr'[i] = UploadErrors[k]

\* C17: uploadFile goes through open session, input stream, start, write,
\* close, wait in this order; the first stage that fails makes it return that
\* stage's error without attempting a later stage; it returns nil only after
\* every stage, the final wait included, has succeeded.
C17_UploadStagesInOrder == []UploadState /\ [][UploadStep]_vars

\* C17 witness: an upload failed at the close of the input stream, after the
\* write went through, and the task is about to send that error.
C17_Witness ==
    /\ prog = "mscp"
    /\ \E i \in Tasks : pc[i] = "send" /\ terr[i] = "close" /\ session[i] = "open"

\* C18: on a keyring of n Signers, Key(i) and Sign(i, ...) with an index
\* outside 0..n-1 return an empty key / signature and no error, and do not
\* fail; with 0 <= i < n they return the public key, respectively the
\* signature (or the signing error), of the i-th Signer in keyring order.
C18_OutOfRangeIsNoOp ==
    ret /= NoReturn =>
        IF call.i >= 0 /\ call.i < Len(keyring.signers)
          THEN /\ ret.state = "returned"
               /\ call.op = "Key" =>
                    (ret.key = PublicKey(keyring.signers[call.i + 1]) /\ ret.err = NoErr)
               /\ call.op = "Sign" =>
                    \/ (ret.sig = Signature(keyring.signers[call.i + 1], call.data) /\ ret.err = NoErr)
                    \/ (ret.sig = NilSig /\ ret.err = "sign")
          ELSE ret = Returned(NilKey, NilSig, NoErr)

\* The dispatcher is done with a list wider than the channel: every result
\* was received, the channel is empty, every goroutine has ended and main has
\* printed the map.
WideDone ==
    /\ mpc = "exited" /\ exitCode = 0
    /\ Len(hostnames) > ChanCap
    /\ received = Len(hostnames)
    /\ resultsChan = <<>>
    /\ \A i \in Tasks : pc[i] = "done"

\* The channel never holds more than ChanCap results, and until the process
\* has ended some goroutine can make a step: no deadlock.
WideSafe ==
    /\ Len(resultsChan) <= ChanCap
    /\ (mpc /= "exited") => ENABLED ChannelNext

\* C19: with a host list longer than the channel's capacity of 10, under fair
\* scheduling and with every host's remote work ended, the dispatcher
\* terminates: the goroutines blocked on the full channel are released by the
\* collector, no deadlock is reachable, and all len(hosts) results are
\* received.
C19_WideListTerminates == []WideSafe /\ <>WideDone

\* C19 witness: the channel is full and a goroutine is blocked at its send.
C19_Witness ==
    /\ Len(hostnames) > ChanCap
    /\ Len(resultsChan) = ChanCap
    /\ \E i \in Tasks : pc[i] = "send"
    /\ received = 0

\* What the task of list element i sends as its payload.
TaskPayload(i) == Payload(Message(i))

\* With a host name listed more than once: one goroutine per list element,
\* and a returned map with one entry per distinct name, fewer than
\* len(hostnames), each holding the payload of a task of that name.
DuplicatesState ==
    ~Distinct(hostnames) =>
        /\ (mpc \in {"collect", "returned"} \/ MapReturned) =>
              (launched = Len(hostnames) /\ \A i \in Tasks : pc[i] /= "idle")
        /\ MapReturned =>
              /\ received = Len(hostnames)
              /\ DOMAIN result = HostSet
              /\ Cardinality(DOMAIN result) < Len(hostnames)
              /\ \A h \in DOMAIN result :
                    \E i \in Tasks : hostnames[i] = h /\ result[h] = TaskPayload(i)

\* The map changes only when a result is received, and then the entry of the
\* received result's host is that result's payload, replacing whatever an
\* earlier result of the same name left there; the other entries stay.
LastReceivedWins ==
    /\ result' /= result => (received' = received + 1 /\ Len(resultsChan) > 0)
    /\ received' = received + 1 =>
          /\ DOMAIN result' = DOMAIN result \cup {Head(resultsChan).hostname}
          /\ result'[Head(resultsChan).hostname] = Payload(Head(resultsChan))
          /\ \A h \in DOMAIN result :
                h /= Head(resultsChan).hostname => result'[h] = result[h]

\* C20: when a host name occurs more than once in the list, one task is
\* launched per list element, the collector receives len(hosts) results and
\* returns, and the map has one entry per distinct name whose value is the one
\* of the duplicate's result that was received last.
C20_DuplicatesLastReceivedWins == []DuplicatesState /\ [][LastReceivedWins]_vars

\* C20 witness: the same host listed twice, the first task failed and the
\* second succeeded; the failure was received last and is the host's entry.
C20_Witness ==
    /\ prog = "mssh"
    /\ MapReturned
    /\ Len(hostnames) = MaxHosts
    /\ \A i \in Tasks : hostnames[i] = HostNames[1]
    /\ terr[1] /= NoErr /\ terr[MaxHosts] = NoErr
    /\ Cardinality(DOMAIN result) = 1
    /\ result[HostNames[1]] = ErrorMarker

====
